---- MODULE Spec2Model ----
(***************************************************************************)
(* Model of matminer/descriptors/composition.py: the four composition      *)
(* featurizers (StoichiometricAttribute, ElementalAttribute,               *)
(* ValenceOrbitalAttribute, IonicAttribute) and the two module functions   *)
(* get_pymatgen_descriptor and get_composition_oxidation_state.            *)
(*                                                                         *)
(* Conventions                                                             *)
(*  - A composition is a sequence of records [el, amt]: the elements in    *)
(*    the order the composition lists them (the iteration order of         *)
(*    get_el_amt_dict()), amt in HALF units (amt = 3 is the amount 1.5),   *)
(*    so that fractional amounts exist in the model.                       *)
(*  - A Python string is a sequence of one-character strings.              *)
(*  - A real number is an unreduced fraction [num, den].                   *)
(*  - A call's outcome is [kind |-> "return" | "raise", value |-> ...].    *)
(***************************************************************************)
EXTENDS Integers, Sequences, FiniteSets, TLC

VARIABLES
    input,     \* what the client holds: "Composition" or "str"
    comp,      \* the client's Composition object, as it stands now
    comp0,     \* that Composition as it was built (history)
    formula,   \* the client's formula string
    groups,    \* how the formula string was written (history)
    self,      \* the featurizer object: its class and configuration
    cfg0,      \* what its constructor stored (history)
    call,      \* the last call that produced `result`
    prop,      \* the property name passed to that call
    result,    \* what that call returned or raised
    queries,   \* the property names that call asked of magpie_data.get_data
    labels     \* what generate_labels last returned for this featurizer

vars == <<input, comp, comp0, formula, groups, self, cfg0, call, prop, result,
          queries, labels>>

(***************************************************************************)
(* Bounds of the model                                                     *)
(***************************************************************************)
MaxAmt2 == 4        \* largest amount of one element, in half units (2.0)
MaxEls == 3         \* most distinct elements in one composition
MaxPLen == 2        \* longest p_list
MaxAttrs == 2       \* longest attributes list
MaxGroups == 2      \* most element groups in a formula string

(***************************************************************************)
(* Generic helpers                                                         *)
(***************************************************************************)
RECURSIVE SeqSum(_)
SeqSum(s) == IF s = <<>> THEN 0 ELSE Head(s) + SeqSum(Tail(s))

RECURSIVE Repeat(_, _)
Repeat(x, n) == IF n <= 0 THEN <<>> ELSE <<x>> \o Repeat(x, n - 1)

RECURSIVE Concat(_)
Concat(ss) == IF ss = <<>> THEN <<>> ELSE Head(ss) \o Concat(Tail(ss))

Abs(x) == IF x < 0 THEN -x ELSE x

SetMin(S) == CHOOSE x \in S : \A y \in S : x <= y

SetMax(S) == CHOOSE x \in S : \A y \in S : x >= y

Elems(s) == {s[i] : i \in 1..Len(s)}

Count(s, x) == Cardinality({i \in 1..Len(s) : s[i] = x})

Frac(n, d) == [num |-> n, den |-> d]

Return(v) == [kind |-> "return", value |-> v]

Raise(e) == [kind |-> "raise", value |-> e]

\* Sequences over S of length 0..n
SeqsUpTo(S, n) == UNION {[1..k -> S] : k \in 0..n}

(***************************************************************************)
(* The periodic table the model knows (pymatgen Element / Magpie tables).  *)
(* Electronegativity is in tenths (Pauling scale: Na 0.9, Fe 1.8, O 3.4).  *)
(***************************************************************************)
Symbols == {"Na", "Fe", "O"}

Electronegativity(el) == CASE el = "Na" -> 9 [] el = "Fe" -> 18 [] el = "O" -> 34

OxidationStates(el) ==
    CASE el = "Na" -> <<1>> [] el = "Fe" -> <<2, 3>> [] el = "O" -> <<-2>>

Number(el) == CASE el = "Na" -> 11 [] el = "Fe" -> 26 [] el = "O" -> 8

\* valence electrons per shell: s, p, d, f and their total
NsValence(el) == CASE el = "Na" -> 1 [] el = "Fe" -> 2 [] el = "O" -> 2

NpValence(el) == CASE el = "Na" -> 0 [] el = "Fe" -> 0 [] el = "O" -> 4

NdValence(el) == CASE el = "Na" -> 0 [] el = "Fe" -> 6 [] el = "O" -> 0

NfValence(el) == 0

NValance(el) == NsValence(el) + NpValence(el) + NdValence(el) + NfValence(el)

(***************************************************************************)
(* Compositions                                                            *)
(***************************************************************************)
Amounts2 == 1..MaxAmt2

Compositions ==
    {c \in SeqsUpTo([el : Symbols, amt : Amounts2], MaxEls) :
        \A i, j \in 1..Len(c) : i # j => c[i].el # c[j].el}

\* Composition.get_el_amt_dict(): a fresh dict, keys in the composition's order
ElAmtKeys(c) == [i \in 1..Len(c) |-> c[i].el]

ElAmtValues(c) == [i \in 1..Len(c) |-> c[i].amt]

\* int(amount): Python truncates the float toward zero
IntOf(amt2) == amt2 \div 2

\* Composition.num_atoms / sum(el_amt.values()), in half units
NumAtoms2(c) == SeqSum(ElAmtValues(c))

(***************************************************************************)
(* sorted(keys, key=lambda sym: get_el_sp(sym).X): a stable sort by        *)
(* electronegativity (equal keys keep the order of the input).             *)
(***************************************************************************)
RECURSIVE InsertByX(_, _)
InsertByX(sorted, sym) ==
    IF sorted = <<>> THEN <<sym>>
    ELSE IF Electronegativity(Head(sorted)) <= Electronegativity(sym)
         THEN <<Head(sorted)>> \o InsertByX(Tail(sorted), sym)
         ELSE <<sym>> \o sorted

RECURSIVE SortedByX(_)
SortedByX(syms) ==
    IF syms = <<>> THEN <<>>
    ELSE InsertByX(SortedByX(SubSeq(syms, 1, Len(syms) - 1)), syms[Len(syms)])

(***************************************************************************)
(* The property provider, magpie_data.get_data(comp, name): one value per  *)
(* atom, grouped by element, the groups in ascending electronegativity.    *)
(***************************************************************************)
MagpieValue(name, el) ==
    CASE name = "OxidationStates" -> OxidationStates(el)
      [] name = "Electronegativity" -> Electronegativity(el)
      [] name = "NsValence" -> NsValence(el)
      [] name = "NpValence" -> NpValence(el)
      [] name = "NdValence" -> NdValence(el)
      [] name = "NfValence" -> NfValence(el)
      [] name = "NValance" -> NValance(el)
      [] OTHER -> Number(el)

AmtOf(c, el) == LET i == CHOOSE k \in 1..Len(c) : c[k].el = el IN c[i].amt

get_data(c, name) ==
    LET syms == SortedByX(ElAmtKeys(c))
    IN Concat([i \in 1..Len(syms) |->
                 Repeat(MagpieValue(name, syms[i]), IntOf(AmtOf(c, syms[i])))])

(***************************************************************************)
(* StoichiometricAttribute                                                 *)
(***************************************************************************)
DefaultPList == <<0, 2, 3, 5, 7, 10>>

\* A norm value: for p = 0 the integer `int`; for p > 0 the real number
\* (sum of t^p over terms) ^ (1/p), kept symbolic.
NormInt(n) == [p |-> 0, terms |-> <<>>, int |-> n]

NormRoot(p, terms) == [p |-> p, terms |-> terms, int |-> 0]

\* Faulty variant of StoichLoop: on a negative exponent it hands back the
\* norms computed so far instead of raising.
RECURSIVE StoichLoopPartial(_, _, _, _)
StoichLoopPartial(p_list, c, i, p_norms) ==
    IF i > Len(p_list) THEN Return(p_norms)
    ELSE IF p_list[i] < 0 THEN Return(p_norms)
    ELSE IF p_list[i] = 0
         THEN StoichLoopPartial(p_list, c, i + 1,
                                [p_norms EXCEPT ![i] = NormInt(Len(ElAmtValues(c)))])
         ELSE StoichLoopPartial(p_list, c, i + 1,
                                [p_norms EXCEPT ![i] =
                                   NormRoot(p_list[i],
                                            [j \in 1..Len(c) |->
                                               Frac(c[j].amt, NumAtoms2(c))])])

\* lines 40-48, from index i on, p_norms being the list built so far
RECURSIVE StoichLoop(_, _, _, _)
StoichLoop(p_list, c, i, p_norms) ==
    IF i > Len(p_list) THEN Return(p_norms)
    ELSE IF p_list[i] < 0 THEN Raise("p-norm not defined for p < 0")
    ELSE IF p_list[i] = 0
         THEN StoichLoop(p_list, c, i + 1,
                         [p_norms EXCEPT ![i] = NormInt(Len(ElAmtValues(c)))])
         ELSE StoichLoop(p_list, c, i + 1,
                         [p_norms EXCEPT ![i] =
                            NormRoot(p_list[i],
                                     [j \in 1..Len(c) |-> Frac(c[j].amt, NumAtoms2(c))])])

\* Faulty variant of StoichiometricFeaturize: it reverses self.p_list in
\* place before it computes the norms.
Reverse(s) == [i \in 1..Len(s) |-> s[Len(s) + 1 - i]]

StoichiometricFeaturizeInPlace(p_list, c) ==
    [comp |-> c,
     result |-> StoichLoop(Reverse(p_list), c, 1, [i \in 1..Len(p_list) |-> NormInt(0)]),
     queries |-> <<>>,
     p_list |-> Reverse(p_list)]

\* the run of featurize: what it returns or raises, and the objects it
\* could reach (self.p_list, comp) as they stand afterwards
StoichiometricFeaturize(p_list, c) ==
    [comp |-> c,
     result |-> StoichLoop(p_list, c, 1, [i \in 1..Len(p_list) |-> NormInt(0)]),
     queries |-> <<>>,
     p_list |-> p_list]

StoichiometricLabels(p_list) ==
    [i \in 1..Len(p_list) |-> [fmt |-> "%d-norm", arg |-> p_list[i]]]

(***************************************************************************)
(* ElementalAttribute                                                      *)
(***************************************************************************)
DefaultAttributes ==
    <<"Number", "MendeleevNumber", "AtomicWeight", "MeltingT", "Column",
      "Row", "CovalentRadius", "Electronegativity",
      "NsValence", "NpValence", "NdValence", "NfValence", "NValance",
      "NsUnfilled", "NpUnfilled", "NdUnfilled", "NfUnfilled", "NUnfilled",
      "GSvolume_pa", "GSbandgap", "GSmagmom", "SpaceGroupNumber">>

\* iteration order of set(elem_data): CPython walks the hash table's slots;
\* a small integer hashes to itself and a small set has 8 slots, values that
\* share a slot follow in the order they were inserted (the list's order).
FirstIndex(s, x) == SetMin({i \in 1..Len(s) : s[i] = x})

SetIterBefore(s, x, y) ==
    \/ x % 8 < y % 8
    \/ x % 8 = y % 8 /\ FirstIndex(s, x) < FirstIndex(s, y)

\* max(set(elem_data), key=elem_data.count): the first value, in the set's
\* iteration order, whose count is the largest
Mode(elem_data) ==
    CHOOSE x \in Elems(elem_data) :
        /\ \A y \in Elems(elem_data) : Count(elem_data, y) <= Count(elem_data, x)
        /\ \A y \in Elems(elem_data) :
              (y # x /\ Count(elem_data, y) = Count(elem_data, x))
                 => SetIterBefore(elem_data, x, y)

\* Faulty variant of ElementalStats: max is appended before min.
ElementalStatsSwapped(elem_data) ==
    LET n == Len(elem_data)
        lo == SetMin(Elems(elem_data))
        hi == SetMax(Elems(elem_data))
        total == SeqSum(elem_data)
    IN << Frac(hi, 1),
          Frac(lo, 1),
          Frac(hi - lo, 1),
          Frac(total, n),
          Frac(SeqSum([k \in 1..n |-> Abs(n * elem_data[k] - total)]), n * n),
          Frac(Mode(elem_data), 1) >>

\* lines 86-93: the six statistics of one series, in the order appended
ElementalStats(elem_data) ==
    LET n == Len(elem_data)
        lo == SetMin(Elems(elem_data))
        hi == SetMax(Elems(elem_data))
        total == SeqSum(elem_data)
    IN << Frac(lo, 1),
          Frac(hi, 1),
          Frac(hi - lo, 1),
          Frac(total, n),
          Frac(SeqSum([k \in 1..n |-> Abs(n * elem_data[k] - total)]), n * n),
          Frac(Mode(elem_data), 1) >>

\* lines 83-93 from attribute i on; min() of an empty series raises ValueError
RECURSIVE ElementalLoop(_, _, _, _, _)
ElementalLoop(attributes, c, i, all_attributes, asked) ==
    IF i > Len(attributes)
    THEN [result |-> Return(all_attributes), queries |-> asked]
    ELSE LET elem_data == get_data(c, attributes[i])
             asked2 == Append(asked, attributes[i])
         IN IF elem_data = <<>>
            THEN [result |-> Raise("ValueError"), queries |-> asked2]
            ELSE ElementalLoop(attributes, c, i + 1,
                               all_attributes \o ElementalStats(elem_data), asked2)

ElementalFeaturize(attributes, c) ==
    LET run == ElementalLoop(attributes, c, 1, <<>>, <<>>)
    IN [comp |-> c,
        result |-> run.result,
        queries |-> run.queries,
        attributes |-> attributes]

ElementalLabels(attributes) ==
    Concat([i \in 1..Len(attributes) |->
              << [fmt |-> "Min %s", arg |-> attributes[i]],
                 [fmt |-> "Max %s", arg |-> attributes[i]],
                 [fmt |-> "Range %s", arg |-> attributes[i]],
                 [fmt |-> "Mean %s", arg |-> attributes[i]],
                 [fmt |-> "AbsDev %s", arg |-> attributes[i]],
                 [fmt |-> "Mode %s", arg |-> attributes[i]] >>])

(***************************************************************************)
(* ValenceOrbitalAttribute                                                 *)
(***************************************************************************)
ValenceProps == <<"NValance", "NsValence", "NpValence", "NdValence", "NfValence">>

\* sum(series) / num_atoms, num_atoms in half units
ValenceAvg(c, name) == Frac(2 * SeqSum(get_data(c, name)), NumAtoms2(c))

FracDiv(a, b) == Frac(a.num * b.den, a.den * b.num)

ValenceOrbitalFeaturize(c) ==
    LET total == ValenceAvg(c, "NValance")
        res == IF NumAtoms2(c) = 0
               THEN [result |-> Raise("ZeroDivisionError"), queries |-> <<"NValance">>]
               ELSE IF total.num = 0
               THEN [result |-> Raise("ZeroDivisionError"), queries |-> ValenceProps]
               ELSE [result |-> Return(<< FracDiv(ValenceAvg(c, "NsValence"), total),
                                          FracDiv(ValenceAvg(c, "NpValence"), total),
                                          FracDiv(ValenceAvg(c, "NdValence"), total),
                                          FracDiv(ValenceAvg(c, "NfValence"), total) >>),
                     queries |-> ValenceProps]
    IN [comp |-> c, result |-> res.result, queries |-> res.queries]

ValenceOrbitalLabels ==
    LET orbitals == <<"s", "p", "d", "f">>
    IN [i \in 1..4 |-> [fmt |-> "Frac %s Valence Electrons", arg |-> orbitals[i]]]

(***************************************************************************)
(* IonicAttribute                                                          *)
(***************************************************************************)
\* Faulty variant of SingleElement: only the empty composition takes the
\* single-element branch.
SingleElementOffByOne(elements) == Len(elements) < 1

\* line 160: the single-element test
SingleElement(elements) == Len(elements) < 2

\* line 172: ind = int(sum(values[:i]) - 1), a 0-based index; int() truncates
\* toward zero, so the amount 0.5 alone gives int(-0.5) = 0
IonicInd(values, i) ==
    LET s2 == SeqSum(SubSeq(values, 1, i)) - 2
    IN IF s2 < 0 THEN 0 ELSE s2 \div 2

\* itertools.product(*ox_states): one state per position
OxSets(ox_states) ==
    {ox \in [1..Len(ox_states) -> UNION {Elems(ox_states[k]) : k \in 1..Len(ox_states)}] :
        \A k \in 1..Len(ox_states) : ox[k] \in Elems(ox_states[k])}

\* np.dot(ox, values) == 0 (values in half units: the same zero)
Neutral(ox, values) == SeqSum([k \in 1..Len(values) |-> ox[k] * values[k]]) = 0

\* 1.0 - exp(-0.25 * (XA - XB) ** 2), kept as (XA - XB) ** 2 in hundredths:
\* the ionic character grows strictly with it and is 0 exactly when it is 0
IonicChar(XA, XB) == (XA - XB) * (XA - XB)

\* itertools.combinations(range(n), 2), in its order
AtomPairs(n) ==
    Concat([a \in 1..n |-> [k \in 1..(n - a) |-> <<a, a + k>>]])

\* lines 171-174: the entry of a series taken for each element, in the
\* order of `values`
IonicPicked(values, series) ==
    [i \in 1..Len(values) |-> series[IonicInd(values, i) + 1]]

\* lines 177-182
CpdPossible(ox_states, values) == \E ox \in OxSets(ox_states) : Neutral(ox, values)

\* lines 191-194: one ionic character per pair
IonicChars(elec) ==
    LET atom_pairs == AtomPairs(Len(elec))
    IN [k \in 1..Len(atom_pairs) |->
          IonicChar(elec[atom_pairs[k][1]], elec[atom_pairs[k][2]])]

\* line 195, summed over the pairs: el_frac[a] * el_frac[b] * ionic_char
AvgIonicChar(values, elec) ==
    LET atom_pairs == AtomPairs(Len(elec))
        ionic_char == IonicChars(elec)
        total == SeqSum(values)
    IN Frac(SeqSum([k \in 1..Len(atom_pairs) |->
                      values[atom_pairs[k][1]] * values[atom_pairs[k][2]] * ionic_char[k]]),
            total * total)

\* lines 155-199; np.max of an empty list raises ValueError
IonicFeaturize(c) ==
    LET elements == ElAmtKeys(c)
        values == ElAmtValues(c)
    IN IF SingleElement(elements)
       THEN [comp |-> c,
             result |-> Return(<<TRUE, Frac(0, 1), Frac(0, 1)>>),
             queries |-> <<>>]
       ELSE
         LET all_ox_states == get_data(c, "OxidationStates")
             all_elec == get_data(c, "Electronegativity")
             asked == <<"OxidationStates", "Electronegativity">>
         IN IF \E i \in 1..Len(values) : IonicInd(values, i) >= Len(all_ox_states)
            THEN [comp |-> c, result |-> Raise("IndexError"), queries |-> asked]
            ELSE
              LET ox_states == IonicPicked(values, all_ox_states)
                  elec == IonicPicked(values, all_elec)
                  ionic_char == IonicChars(elec)
              IN IF ionic_char = <<>>
                 THEN [comp |-> c, result |-> Raise("ValueError"), queries |-> asked]
                 ELSE [comp |-> c,
                       result |-> Return(<< CpdPossible(ox_states, values),
                                            Frac(SetMax(Elems(ionic_char)), 1),
                                            AvgIonicChar(values, elec) >>),
                       queries |-> asked]

IonicLabels == <<"compound possible", "Max Ionic Char", "Avg Ionic Char">>

(***************************************************************************)
(* Strings                                                                 *)
(***************************************************************************)
Upper == {"F", "N", "O"}

Lower == {"a", "e"}

Letters == Upper \cup Lower

Digits == {"0", "1", "2", "3", "4", "5", "6", "7", "8", "9"}

Signs == {"+", "-"}

Space == {" "}

DigitValue(ch) ==
    CASE ch = "0" -> 0 [] ch = "1" -> 1 [] ch = "2" -> 2 [] ch = "3" -> 3
      [] ch = "4" -> 4 [] ch = "5" -> 5 [] ch = "6" -> 6 [] ch = "7" -> 7
      [] ch = "8" -> 8 [] ch = "9" -> 9

SymbolChars(el) ==
    CASE el = "Na" -> <<"N", "a">> [] el = "Fe" -> <<"F", "e">> [] el = "O" -> <<"O">>

\* re.split of a pattern [class]+ : the pieces between the maximal runs of
\* characters of C, empty pieces at the ends included
RECURSIVE SplitAcc(_, _, _, _, _)
SplitAcc(s, C, i, cur, out) ==
    IF i > Len(s) THEN Append(out, cur)
    ELSE IF s[i] \in C
         THEN IF i > 1 /\ s[i - 1] \in C
              THEN SplitAcc(s, C, i + 1, cur, out)
              ELSE SplitAcc(s, C, i + 1, <<>>, Append(out, cur))
         ELSE SplitAcc(s, C, i + 1, Append(cur, s[i]), out)

SplitRuns(s, C) == SplitAcc(s, C, 1, <<>>, <<>>)

\* str.strip()
RECURSIVE LStrip(_)
LStrip(s) == IF s # <<>> /\ Head(s) \in Space THEN LStrip(Tail(s)) ELSE s

RECURSIVE RStrip(_)
RStrip(s) ==
    IF s # <<>> /\ s[Len(s)] \in Space THEN RStrip(SubSeq(s, 1, Len(s) - 1)) ELSE s

Strip(s) == RStrip(LStrip(s))

\* positions where sep occurs in s
Occurrences(s, sep) ==
    {k \in 1..(Len(s) - Len(sep) + 1) : SubSeq(s, k, k + Len(sep) - 1) = sep}

\* tuple(s.split(sep, 1)): two pieces around the first occurrence, or the
\* one-piece tuple when sep does not occur
Split1(s, sep) ==
    IF Occurrences(s, sep) = {} THEN <<s>>
    ELSE LET k == SetMin(Occurrences(s, sep))
         IN <<SubSeq(s, 1, k - 1), SubSeq(s, k + Len(sep), Len(s))>>

\* re.split on a single digit, piece 0: what stands before the first digit
RECURSIVE BeforeFirstDigit(_)
BeforeFirstDigit(g) ==
    IF g = <<>> \/ Head(g) \in Digits THEN <<>>
    ELSE <<Head(g)>> \o BeforeFirstDigit(Tail(g))

RECURSIVE ParseNat(_, _)
ParseNat(ds, acc) ==
    IF ds = <<>> THEN acc ELSE ParseNat(Tail(ds), 10 * acc + DigitValue(Head(ds)))

AllDigits(ds) == ds # <<>> /\ \A k \in 1..Len(ds) : ds[k] \in Digits

\* int(text) for a text with one optional leading sign
IntOk(t) ==
    IF t # <<>> /\ Head(t) \in Signs THEN AllDigits(Tail(t)) ELSE AllDigits(t)

IntValue(t) ==
    IF Head(t) = "-" THEN -ParseNat(Tail(t), 0)
    ELSE IF Head(t) = "+" THEN ParseNat(Tail(t), 0)
    ELSE ParseNat(t, 0)

\* Element(el): the symbol named by the text, if it names one
ElementOk(el) == \E sym \in Symbols : SymbolChars(sym) = el

ElementOf(el) == CHOOSE sym \in Symbols : SymbolChars(sym) = el

(***************************************************************************)
(* Composition(formula), pymatgen's formula parser as the module calls it: *)
(* every match of <capital, small letters> <white space> <run of digits,   *)
(* minus, star, dot> adds an element with its amount (1 when none is       *)
(* written); anything left over other than white space, an amount that is  *)
(* no number, or an unknown symbol is an error.                            *)
(***************************************************************************)
RECURSIVE TakeWhile(_, _, _)
TakeWhile(s, i, C) ==
    IF i <= Len(s) /\ s[i] \in C THEN <<s[i]>> \o TakeWhile(s, i + 1, C) ELSE <<>>

AddAmount(acc, el, amt2) ==
    IF \E k \in 1..Len(acc) : acc[k].el = el
    THEN [k \in 1..Len(acc) |->
            IF acc[k].el = el THEN [el |-> el, amt |-> acc[k].amt + amt2] ELSE acc[k]]
    ELSE Append(acc, [el |-> el, amt |-> amt2])

RECURSIVE CompositionScan(_, _, _)
CompositionScan(s, i, acc) ==
    IF i > Len(s) THEN [comp |-> acc, ok |-> TRUE]
    ELSE IF s[i] \in Upper
    THEN LET sym == <<s[i]>> \o TakeWhile(s, i + 1, Lower)
             j == i + Len(sym)
             ws == TakeWhile(s, j, Space)
             amt == TakeWhile(s, j + Len(ws), Digits \cup {"-", ".", "*"})
             next == j + Len(ws) + Len(amt)
         IN IF ~ElementOk(sym) \/ (amt # <<>> /\ ~AllDigits(amt))
            THEN [comp |-> <<>>, ok |-> FALSE]
            ELSE CompositionScan(s, next,
                    AddAmount(acc, ElementOf(sym),
                              IF amt = <<>> THEN 2 ELSE 2 * ParseNat(amt, 0)))
    ELSE IF s[i] \in Space THEN CompositionScan(s, i + 1, acc)
    ELSE [comp |-> <<>>, ok |-> FALSE]

CompositionOf(s) == CompositionScan(s, 1, <<>>)

(***************************************************************************)
(* get_composition_oxidation_state                                         *)
(***************************************************************************)
HasSign(s) == \E k \in 1..Len(s) : s[k] \in Signs

\* lines 305-308: the annotation read from one stripped non-alphabetic piece
Annotation(s) ==
    LET digits == SplitRuns(s, Signs)
        sign_tmp == SplitRuns(s, Digits)
        sign == SelectSeq([k \in 1..Len(sign_tmp) |-> Strip(sign_tmp[k])],
                          LAMBDA x : x # <<>>)
    IN sign[Len(sign)] \o Strip(digits[Len(digits)])

\* lines 301-308
RECURSIVE OxidationStrings(_)
OxidationStrings(non_alphabets) ==
    IF non_alphabets = <<>> THEN <<>>
    ELSE LET s == Strip(Head(non_alphabets))
         IN (IF s # <<>> /\ HasSign(s) THEN <<Annotation(s)>> ELSE <<>>)
              \o OxidationStrings(Tail(non_alphabets))

\* lines 311-316: the pieces before each annotation in turn. `after` is what
\* remains to be split; ok is FALSE when a split yields one piece only (the
\* two-name unpacking raises ValueError). What remains after the last
\* annotation is not appended.
RECURSIVE FormulaPlain(_, _, _)
FormulaPlain(after, oxs, formula_plain) ==
    IF oxs = <<>> THEN [ok |-> TRUE, pieces |-> formula_plain]
    ELSE LET parts == Split1(after, Head(oxs))
         IN IF Len(parts) # 2 THEN [ok |-> FALSE, pieces |-> <<>>]
            ELSE FormulaPlain(parts[2], Tail(oxs), Append(formula_plain, parts[1]))

\* lines 317-319: fill the dict, a later entry for a symbol overwriting
RECURSIVE OxidationDict(_, _, _, _)
OxidationDict(formula_plain, oxs, i, d) ==
    IF i > Len(formula_plain) THEN [ok |-> TRUE, dict |-> d]
    ELSE LET el == BeforeFirstDigit(Strip(formula_plain[i]))
         IN IF ~ElementOk(el) \/ ~IntOk(oxs[i])
            THEN [ok |-> FALSE, dict |-> d]
            ELSE OxidationDict(formula_plain, oxs, i + 1,
                    [x \in DOMAIN d \cup {ElementOf(el)} |->
                        IF x = ElementOf(el) THEN IntValue(oxs[i]) ELSE d[x]])

EmptyDict == [x \in {} |-> 0]

Parsed(c, d) == Return([comp |-> c, oxi |-> d])

get_composition_oxidation_state(f) ==
    LET non_alphabets == SplitRuns(f, Letters)
        oxidation_states == OxidationStrings(non_alphabets)
        direct == CompositionOf(f)
    IN IF non_alphabets = <<>> \/ oxidation_states = <<>>
       THEN IF direct.ok THEN Parsed(direct.comp, EmptyDict) ELSE Raise("CompositionError")
       ELSE
         LET plain == FormulaPlain(f, oxidation_states, <<>>)
         IN IF ~plain.ok THEN Raise("ValueError")
            ELSE
              LET d == OxidationDict(plain.pieces, oxidation_states, 1, EmptyDict)
                  cp == CompositionOf(Concat(plain.pieces))
              IN IF ~d.ok THEN Raise("ValueError")
                 ELSE IF ~cp.ok THEN Raise("CompositionError")
                 ELSE Parsed(cp.comp, d.dict)

(***************************************************************************)
(* get_pymatgen_descriptor                                                 *)
(***************************************************************************)
\* Element.ionic_radii: oxidation state -> radius (picometres)
IonicRadii(el) ==
    CASE el = "Na" -> [x \in {1} |-> 102]
      [] el = "Fe" -> [x \in {2, 3} |-> IF x = 2 THEN 78 ELSE 65]
      [] el = "O" -> [x \in {-2} |-> 140]

\* lines 248-267 for one symbol: the value appended for each of its atoms
DescriptorValue(el_sym, property_name, oxidation_states) ==
    IF property_name = "ionic_radii"
    THEN IF DOMAIN oxidation_states = {} THEN Raise("ValueError")
         ELSE IF el_sym \notin DOMAIN oxidation_states THEN Raise("KeyError")
         ELSE IF oxidation_states[el_sym] \notin DOMAIN IonicRadii(el_sym)
              THEN Raise("KeyError")
         ELSE Return(IonicRadii(el_sym)[oxidation_states[el_sym]])
    ELSE IF property_name = "X" THEN Return(Electronegativity(el_sym))
    ELSE Return(Number(el_sym))

\* round(amount), to the nearest integer, a half going to the even one
RoundOf(amt2) ==
    IF amt2 % 2 = 0 THEN amt2 \div 2
    ELSE IF (amt2 \div 2) % 2 = 0 THEN amt2 \div 2 ELSE amt2 \div 2 + 1

\* Faulty variant of AtomEntries: range(round(amount)).
AtomEntriesRounded(amt2) == RoundOf(amt2)

\* line 279: the number of entries appended for one element
AtomEntries(amt2) == IntOf(amt2)

\* lines 244-282
RECURSIVE DescriptorLoop(_, _, _, _, _)
DescriptorLoop(symbols, c, property_name, oxidation_states, eldata) ==
    IF symbols = <<>> THEN Return(eldata)
    ELSE LET v == DescriptorValue(Head(symbols), property_name, oxidation_states)
         IN IF v.kind = "raise" THEN v
            ELSE DescriptorLoop(Tail(symbols), c, property_name, oxidation_states,
                    eldata \o Repeat(v.value, AtomEntries(AmtOf(c, Head(symbols)))))

DescriptorOf(c, property_name, oxidation_states) ==
    DescriptorLoop(SortedByX(ElAmtKeys(c)), c, property_name, oxidation_states, <<>>)

\* a Composition of plain Elements: composition.elements[0] of an empty one
\* raises IndexError, and there are no oxidation states
get_pymatgen_descriptor(c, property_name) ==
    IF c = <<>> THEN Raise("IndexError")
    ELSE DescriptorOf(c, property_name, EmptyDict)

\* a formula string
get_pymatgen_descriptor_str(f, property_name) ==
    LET parsed == get_composition_oxidation_state(f)
    IN IF parsed.kind = "raise" THEN parsed
       ELSE DescriptorOf(parsed.value.comp, property_name, parsed.value.oxi)

(***************************************************************************)
(* The inputs of the model                                                 *)
(***************************************************************************)
PChoices == {-1, 0, 2}

PLists == SeqsUpTo(PChoices, MaxPLen)

AttrNames == {"Number", "NsValence"}

AttrLists == SeqsUpTo(AttrNames, MaxAttrs)

PymatgenProps == {"X", "Z", "ionic_radii"}

\* Formula strings are written group by group: the k-th group names the k-th
\* element of GroupEls, then its subscript, then its annotations; `lead` is
\* an annotation standing before the first element.
GroupEls == <<"Fe", "O", "Na">>

SubChoices ==
    { [n |-> 1, text |-> <<>>],
      [n |-> 2, text |-> <<"2">>],
      [n |-> 3, text |-> <<"3">>] }

AnnChoices ==
    { [text |-> <<>>, states |-> <<>>],
      [text |-> <<"+", "3">>, states |-> <<3>>],
      [text |-> <<"-", "2">>, states |-> <<-2>>],
      [text |-> <<" ", "+", "3">>, states |-> <<3>>],
      [text |-> <<"+", "3", "+", "3">>, states |-> <<3, 3>>],
      [text |-> <<"+", "3", "-", "2">>, states |-> <<3, -2>>] }

LeadChoices ==
    { [text |-> <<>>, states |-> <<>>],
      [text |-> <<"+", "3">>, states |-> <<3>>] }

NGroups == IF MaxGroups < Len(GroupEls) THEN MaxGroups ELSE Len(GroupEls)

FormulaStructs ==
    [lead : LeadChoices, body : SeqsUpTo([sub : SubChoices, ann : AnnChoices], NGroups)]

Render(g) ==
    g.lead.text \o
    Concat([k \in 1..Len(g.body) |->
              SymbolChars(GroupEls[k]) \o g.body[k].sub.text \o g.body[k].ann.text])

(***************************************************************************)
(* The state machine. A behaviour follows one input, a Composition or a    *)
(* formula string (get_pymatgen_descriptor takes either), through the      *)
(* calls a client makes with it: the module functions, and the methods of  *)
(* one featurizer object built for it.                                     *)
(***************************************************************************)
NoResult == [kind |-> "none", value |-> <<>>]

NoLabels == [value |-> <<>>, known |-> FALSE]

NoFeaturizer == [p_list |-> <<>>, attributes |-> <<>>, cls |-> "none"]

NoFormula == [lead |-> [text |-> <<>>, states |-> <<>>], body |-> <<>>]

Init ==
    /\ self = NoFeaturizer
    /\ cfg0 = NoFeaturizer
    /\ call = "none"
    /\ prop = "none"
    /\ result = NoResult
    /\ queries = <<>>
    /\ labels = NoLabels
    /\ \/ /\ input = "Composition"
          /\ comp \in Compositions
          /\ comp0 = comp
          /\ groups = NoFormula
          /\ formula = <<>>
       \/ /\ input = "str"
          /\ comp = <<>>
          /\ comp0 = <<>>
          /\ groups \in FormulaStructs
          /\ formula = Render(groups)

\* __init__ of a featurizer
New(obj) ==
    /\ self.cls = "none"
    /\ input = "Composition"
    /\ self' = obj
    /\ cfg0' = obj
    /\ call' = "__init__"
    /\ prop' = "none"
    /\ result' = NoResult
    /\ queries' = <<>>
    /\ labels' = NoLabels
    /\ UNCHANGED <<input, comp, comp0, formula, groups>>

NewStoichiometricDefault ==
    New([p_list |-> DefaultPList, attributes |-> <<>>, cls |-> "StoichiometricAttribute"])

NewStoichiometric ==
    \E p \in PLists :
        New([p_list |-> p, attributes |-> <<>>, cls |-> "StoichiometricAttribute"])

NewElementalDefault ==
    New([p_list |-> <<>>, attributes |-> DefaultAttributes, cls |-> "ElementalAttribute"])

NewElemental ==
    \E a \in AttrLists :
        New([p_list |-> <<>>, attributes |-> a, cls |-> "ElementalAttribute"])

NewValenceOrbital ==
    New([p_list |-> <<>>, attributes |-> <<>>, cls |-> "ValenceOrbitalAttribute"])

NewIonic ==
    New([p_list |-> <<>>, attributes |-> <<>>, cls |-> "IonicAttribute"])

\* the part of a featurize(comp) call common to the four classes
Featurized(run, obj) ==
    /\ self' = obj
    /\ call' = "featurize"
    /\ comp' = run.comp
    /\ result' = run.result
    /\ queries' = run.queries
    /\ UNCHANGED <<input, cfg0, comp0, formula, groups, prop, labels>>

StoichiometricFeaturizeCall ==
    /\ self.cls = "StoichiometricAttribute"
    /\ LET run == StoichiometricFeaturize(self.p_list, comp)
       IN Featurized(run, [self EXCEPT !.p_list = run.p_list])

ElementalFeaturizeCall ==
    /\ self.cls = "ElementalAttribute"
    /\ LET run == ElementalFeaturize(self.attributes, comp)
       IN Featurized(run, [self EXCEPT !.attributes = run.attributes])

ValenceOrbitalFeaturizeCall ==
    /\ self.cls = "ValenceOrbitalAttribute"
    /\ Featurized(ValenceOrbitalFeaturize(comp), self)

IonicFeaturizeCall ==
    /\ self.cls = "IonicAttribute"
    /\ Featurized(IonicFeaturize(comp), self)

GenerateLabels(cls, ls) ==
    /\ self.cls = cls
    /\ labels' = [value |-> ls, known |-> TRUE]
    /\ UNCHANGED <<input, self, cfg0, call, comp, comp0, formula, groups, prop,
                   result, queries>>

StoichiometricGenerateLabels ==
    GenerateLabels("StoichiometricAttribute", StoichiometricLabels(self.p_list))

ElementalGenerateLabels ==
    GenerateLabels("ElementalAttribute", ElementalLabels(self.attributes))

ValenceOrbitalGenerateLabels ==
    GenerateLabels("ValenceOrbitalAttribute", ValenceOrbitalLabels)

IonicGenerateLabels ==
    GenerateLabels("IonicAttribute", IonicLabels)

\* a call of one of the two module functions, before any featurizer is built
ModuleCall(kind, name, pn, res) ==
    /\ self.cls = "none"
    /\ input = kind
    /\ call' = name
    /\ prop' = pn
    /\ result' = res
    /\ UNCHANGED <<input, self, cfg0, comp, comp0, formula, groups, queries, labels>>

GetCompositionOxidationState ==
    ModuleCall("str", "get_composition_oxidation_state", "none",
               get_composition_oxidation_state(formula))

GetPymatgenDescriptor ==
    \E pn \in PymatgenProps :
        ModuleCall("Composition", "get_pymatgen_descriptor", pn,
                   get_pymatgen_descriptor(comp, pn))

GetPymatgenDescriptorStr ==
    \E pn \in PymatgenProps :
        ModuleCall("str", "get_pymatgen_descriptor", pn,
                   get_pymatgen_descriptor_str(formula, pn))

Next ==
    \/ NewStoichiometricDefault
    \/ NewStoichiometric
    \/ NewElementalDefault
    \/ NewElemental
    \/ NewValenceOrbital
    \/ NewIonic
    \/ StoichiometricFeaturizeCall
    \/ ElementalFeaturizeCall
    \/ ValenceOrbitalFeaturizeCall
    \/ IonicFeaturizeCall
    \/ StoichiometricGenerateLabels
    \/ ElementalGenerateLabels
    \/ ValenceOrbitalGenerateLabels
    \/ IonicGenerateLabels
    \/ GetCompositionOxidationState
    \/ GetPymatgenDescriptor
    \/ GetPymatgenDescriptorStr

Spec == Init /\ [][Next]_vars

(***************************************************************************)
(* Properties                                                              *)
(***************************************************************************)
IsCall(cls) == call = "featurize" /\ self.cls = cls

Returned == result.kind = "return"

WholeAmounts(c) == \A k \in 1..Len(c) : c[k].amt % 2 = 0

\* one oxidation state per element of c, each from that element's own list,
\* the states times the amounts summing to zero
NeutralChoiceExists(c) ==
    \E ox \in OxSets([k \in 1..Len(c) |-> OxidationStates(c[k].el)]) :
        SeqSum([k \in 1..Len(c) |-> ox[k] * c[k].amt]) = 0

\* C1: for a composition of two or more elements, in whatever order it
\* lists them, IonicAttribute.featurize returns compound_possible = TRUE
\* exactly when some choice of one oxidation state per element, each from
\* the element's own list, makes the amount-weighted sum zero. (Stated for
\* whole amounts, where the series holds one entry per atom.)
C1_CompoundPossibleIffNeutral ==
    (IsCall("IonicAttribute") /\ Len(comp0) >= 2 /\ WholeAmounts(comp0))
        => /\ Returned
           /\ result.value[1] <=> NeutralChoiceExists(comp0)

\* the formula was written with no annotation before the first element and
\* at most one annotation per element
WellAnnotated(g) ==
    /\ g.lead.states = <<>>
    /\ \A k \in 1..Len(g.body) : Len(g.body[k].ann.states) <= 1

AnnotatedGroups(g) == {k \in 1..Len(g.body) : Len(g.body[k].ann.states) = 1}

WrittenComposition(g) == {<<GroupEls[k], 2 * g.body[k].sub.n>> : k \in 1..Len(g.body)}

WrittenStates(g) == {<<GroupEls[k], g.body[k].ann.states[1]>> : k \in AnnotatedGroups(g)}

CompAsSet(c) == {<<c[k].el, c[k].amt>> : k \in 1..Len(c)}

DictAsSet(d) == {<<x, d[x]>> : x \in DOMAIN d}

\* C2: for a formula in which one or more elements (not necessarily all)
\* carry an annotation, get_composition_oxidation_state returns the
\* composition of the formula without its annotations, every element kept
\* with its amount, and a map holding exactly the annotated elements with
\* their annotated states.
C2_ParserKeepsEveryElement ==
    (call = "get_composition_oxidation_state" /\ WellAnnotated(groups)
       /\ AnnotatedGroups(groups) # {})
        => /\ Returned
           /\ CompAsSet(result.value.comp) = WrittenComposition(groups)
           /\ DictAsSet(result.value.oxi) = WrittenStates(groups)

\* the length each class's vector must have
VectorLength ==
    CASE self.cls = "StoichiometricAttribute" -> Len(cfg0.p_list)
      [] self.cls = "ElementalAttribute" -> 6 * Len(cfg0.attributes)
      [] self.cls = "ValenceOrbitalAttribute" -> 4
      [] self.cls = "IonicAttribute" -> 3

SameFrac(v, n, d) == v.num * d = n * v.den

\* v is the quantity a StoichiometricAttribute label names
IsNorm(label, c, v) ==
    /\ label.fmt = "%d-norm"
    /\ v.p = label.arg
    /\ IF label.arg = 0
       THEN v.int = Cardinality({c[k].el : k \in 1..Len(c)})
       ELSE /\ Len(v.terms) = Len(c)
            /\ \A k \in 1..Len(c) : SameFrac(v.terms[k], c[k].amt, NumAtoms2(c))

\* v is the quantity an ElementalAttribute label names
IsStatistic(label, c, v) ==
    LET series == get_data(c, label.arg)
        n == Len(series)
        total == SeqSum(series)
    IN CASE label.fmt = "Min %s" ->
              v.den = 1 /\ v.num \in Elems(series) /\ \A x \in Elems(series) : v.num <= x
         [] label.fmt = "Max %s" ->
              v.den = 1 /\ v.num \in Elems(series) /\ \A x \in Elems(series) : v.num >= x
         [] label.fmt = "Range %s" ->
              v.den = 1 /\ \E lo, hi \in Elems(series) :
                              /\ \A x \in Elems(series) : lo <= x /\ x <= hi
                              /\ v.num = hi - lo
         [] label.fmt = "Mean %s" -> SameFrac(v, total, n)
         [] label.fmt = "AbsDev %s" ->
              SameFrac(v, SeqSum([k \in 1..n |-> Abs(n * series[k] - total)]), n * n)
         [] label.fmt = "Mode %s" ->
              /\ v.den = 1 /\ v.num \in Elems(series)
              /\ \A x \in Elems(series) : Count(series, x) <= Count(series, v.num)
         [] OTHER -> FALSE

\* v is the quantity a ValenceOrbitalAttribute label names: the share of
\* the orbital's valence electrons among all valence electrons
IsValenceFraction(label, c, v) ==
    LET name == CASE label.arg = "s" -> "NsValence" [] label.arg = "p" -> "NpValence"
                  [] label.arg = "d" -> "NdValence" [] label.arg = "f" -> "NfValence"
    IN /\ label.fmt = "Frac %s Valence Electrons"
       /\ SameFrac(v, SeqSum(get_data(c, name)), SeqSum(get_data(c, "NValance")))

\* v is the quantity an IonicAttribute label names, for the oxidation states
\* and electronegativities featurize took from the two series
IsIonicQuantity(label, c, v) ==
    LET values == ElAmtValues(c)
        ox_states == IonicPicked(values, get_data(c, "OxidationStates"))
        elec == IonicPicked(values, get_data(c, "Electronegativity"))
    IN CASE label = "compound possible" ->
              IF Len(c) < 2 THEN v = TRUE
              ELSE v \in BOOLEAN /\ (v <=> CpdPossible(ox_states, values))
         [] label = "Max Ionic Char" ->
              IF Len(c) < 2 THEN v = Frac(0, 1)
              ELSE /\ v.den = 1 /\ v.num \in Elems(IonicChars(elec))
                   /\ \A x \in Elems(IonicChars(elec)) : x <= v.num
         [] label = "Avg Ionic Char" ->
              IF Len(c) < 2 THEN v = Frac(0, 1) ELSE v = AvgIonicChar(values, elec)
         [] OTHER -> FALSE

IsLabelled(label, c, v) ==
    CASE self.cls = "StoichiometricAttribute" -> IsNorm(label, c, v)
      [] self.cls = "ElementalAttribute" -> IsStatistic(label, c, v)
      [] self.cls = "ValenceOrbitalAttribute" -> IsValenceFraction(label, c, v)
      [] self.cls = "IonicAttribute" -> IsIonicQuantity(label, c, v)

C4_NegativeExponentRaises ==
    IsCall("StoichiometricAttribute")
        => IF \E i \in 1..Len(cfg0.p_list) : cfg0.p_list[i] < 0
           THEN result.kind = "raise" /\ result.value = "p-norm not defined for p < 0"
           ELSE /\ Returned
                /\ Len(result.value) = Len(cfg0.p_list)
                /\ \A i \in 1..Len(cfg0.p_list) :
                      IsNorm([fmt |-> "%d-norm", arg |-> cfg0.p_list[i]], comp0,
                             result.value[i])

C4_Witness ==
    /\ IsCall("StoichiometricAttribute")
    /\ Len(cfg0.p_list) = 2 /\ cfg0.p_list[1] > 0 /\ cfg0.p_list[2] < 0
    /\ Len(comp0) = 2
    /\ result.kind = "raise"

\* C6: for a composition of fewer than two distinct elements, whatever the
\* amount, IonicAttribute.featurize returns exactly [True, 0, 0].
C6_SingleElementIonic ==
    (IsCall("IonicAttribute") /\ Len(comp0) < 2)
        => Returned /\ result.value = <<TRUE, Frac(0, 1), Frac(0, 1)>>

C6_Witness ==
    /\ IsCall("IonicAttribute") /\ Len(comp0) = 1 /\ comp0[1].amt = 3
    /\ Returned

\* the value get_pymatgen_descriptor lists for an element
ListedValue(el, pn) == IF pn = "X" THEN Electronegativity(el) ELSE Number(el)

Positions(seq, x) == {i \in 1..Len(seq) : seq[i] = x}

\* eldata holds, for the k-th element of c, the element's value entries[k]
\* times in one contiguous group, the groups in ascending electronegativity
GroupedByElectronegativity(eldata, c, pn, entries) ==
    /\ Len(eldata) = SeqSum(entries)
    /\ \A k \in 1..Len(c) :
          Cardinality(Positions(eldata, ListedValue(c[k].el, pn))) = entries[k]
    /\ \A a, b \in 1..Len(c) :
          Electronegativity(c[a].el) < Electronegativity(c[b].el)
             => \A i \in Positions(eldata, ListedValue(c[a].el, pn)),
                   j \in Positions(eldata, ListedValue(c[b].el, pn)) : i < j

DescriptorOfComposition ==
    call = "get_pymatgen_descriptor" /\ input = "Composition" /\ prop \in {"X", "Z"}

C8_EachPropertyAskedOnce ==
    call = "featurize" => \A name \in Elems(queries) : Count(queries, name) <= 1

\* C9: after any sequence of featurize and generate_labels calls, returning
\* or raising, the featurizer holds the configuration it was built with and
\* the composition passed to featurize is unchanged.
C9_ConfigurationAndInputUnchanged ==
    /\ self = cfg0
    /\ comp = comp0

C9_Witness ==
    /\ IsCall("StoichiometricAttribute") /\ labels.known
    /\ result.kind = "raise"
    /\ cfg0.p_list = <<2, -1>>
    /\ Len(comp0) = 2

\* an annotation stands where no element owns it: before the first element,
\* or after another annotation of the same element
OrphanAnnotation(g) ==
    \/ g.lead.states # <<>>
    \/ \E k \in 1..Len(g.body) : Len(g.body[k].ann.states) >= 2

\* C10: a formula with an annotation that no element fragment owns makes
\* get_composition_oxidation_state fail; it never returns a result.
C10_OrphanAnnotationRaises ==
    (call = "get_composition_oxidation_state" /\ OrphanAnnotation(groups))
        => result.kind = "raise"

====
